---------------------------- MODULE Spec2Model ----------------------------
(*
  A model of two parts of the swc front end:

    * LexerInput / FileMapInput (ecmascript/parser/src/lexer/input.rs):
      the one-codepoint-buffered character stream the lexer consumes.
    * The Jsx fold pass (ecmascript/transforms/src/react/jsx/mod.rs):
      lowering of JSX elements and fragments to pragma calls.

  Option<T> is modelled as a sequence of length at most one:
  None == <<>>, Some(x) == <<x>>.  Strings that the code inspects character
  by character (JsWord values) are sequences of one-character strings.
*)
EXTENDS Integers, Sequences, FiniteSets, TLC

VARIABLES
    \* ---- lexer ----
    src,        \* FileMap.src: the codepoints of the source (Unicode scalar values)
    start_pos,  \* FileMap.start_pos / FileMapInput.start_pos
    iter,       \* FileMapInput.iter: number of codepoints CharIndices has yielded
    cur,        \* LexerInput.cur : Option<(BytePos, char)>
    last_pos,   \* LexerInput.last_pos
    panicked,   \* the unreachable!() of bump has fired
    bumps,      \* history: number of bump() calls that returned
    reads,      \* history: current()/cur_pos() calls since the last bump()
    obsC,       \* history: what current() returned last, since the last bump()
    obsP,       \* history: what cur_pos() returned last, since the last bump()
    ahead,      \* history: the last peek_ahead() call, and the bump count then
    \* ---- Jsx pass ----
    use_builtins, \* Jsx.use_builtins (Options.use_builtins)
    extends,      \* Helpers.extends, the flag of the shared helper registry
    root,         \* the expression handed to Fold<Expr>::fold
    jpc,          \* "start", "folded", "refolded" or "aborted" (a panic)
    out,          \* Option<Expr>: what the last fold returned
    first,        \* history: Option<Expr>, what the first fold returned
    \* ---- Jsx::fold_attrs on its own ----
    attr_list,    \* the attribute list handed to fold_attrs
    aout,         \* Option<Expr>: what fold_attrs returned
    \* ---- lowering of one JSXText child ----
    jsx_text,     \* the JSXText child handed to jsx_elem_child_to_expr
    tout          \* Option<Option<ExprOrSpread>>: what it returned

lexVars == <<src, start_pos, iter, cur, last_pos, panicked, bumps, reads,
             obsC, obsP, ahead>>

None == <<>>
Some(x) == <<x>>

----------------------------------------------------------------------------
(* Bounds and input sets of the lexer model                                 *)

MaxLen == 3
MaxReads == 3

\* 'a' (1 byte), e-acute (2 bytes), euro sign (3 bytes), an emoji (4 bytes)
Chars == {97, 233, 8364, 128512}

\* the first file of a SourceMap starts at 0, later files start further on
StartPositions == {0, 5}

Sources == UNION {[1..n -> Chars] : n \in 0..MaxLen}

----------------------------------------------------------------------------
(* FileMapInput                                                             *)

\* char::len_utf8
len_utf8(c) ==
    IF c < 128 THEN 1 ELSE IF c < 2048 THEN 2 ELSE IF c < 65536 THEN 3 ELSE 4

\* The byte index str::CharIndices reports for the codepoint after k codepoints.
RECURSIVE ByteIndex(_, _)
ByteIndex(s, k) == IF k = 0 THEN 0 ELSE ByteIndex(s, k - 1) + len_utf8(s[k])

\* Iterator::next of FileMapInput, from the iterator state `it`.
InputNext(it) ==
    IF it < Len(src)
    THEN [item |-> Some([pos |-> ByteIndex(src, it) + start_pos, c |-> src[it + 1]]),
          iter |-> it + 1]
    ELSE [item |-> None, iter |-> it]

\* self.clone().nth(n): the clone is advanced, the iterator itself is not.
RECURSIVE InputNth(_, _)
InputNth(it, n) ==
    IF n = 0 THEN InputNext(it).item ELSE InputNth(InputNext(it).iter, n - 1)

input_peek(it) == InputNth(it, 0)

input_peek_ahead(it) == InputNth(it, 1)

----------------------------------------------------------------------------
(* LexerInput                                                               *)

\* Option::map(|(_, c)| c)
CharOf(o) == IF o = None THEN None ELSE Some(o[1].c)

\* LexerInput::peek_ahead
peek_ahead(it) == CharOf(input_peek_ahead(it))

\* A current() that fetches from the input on every call.
current_refetch(c, it) ==
    LET n == InputNext(it) IN [ret |-> CharOf(n.item), cur |-> n.item, iter |-> n.iter]

\* LexerInput::current: the value returned and the fields it leaves.
current(c, it) ==
    IF c # None
    THEN [ret |-> Some(c[1].c), cur |-> c, iter |-> it]
    ELSE LET n == InputNext(it)
         IN  [ret |-> CharOf(n.item), cur |-> n.item, iter |-> n.iter]

\* LexerInput::cur_pos
cur_pos(c, it, lp) ==
    LET r == current(c, it)
    IN  [ret |-> IF r.cur # None THEN r.cur[1].pos ELSE lp, cur |-> r.cur, iter |-> r.iter]

\* A bump() that fetches a codepoint itself when none is buffered.
bump_lenient(c, it, lp) ==
    LET f == IF c # None THEN [item |-> c, iter |-> it] ELSE InputNext(it)
        n == InputNext(f.iter)
    IN  IF f.item = None
        THEN [ok |-> FALSE, cur |-> None, iter |-> it, last_pos |-> lp]
        ELSE [ok |-> TRUE, cur |-> n.item, iter |-> n.iter,
              last_pos |-> f.item[1].pos + len_utf8(f.item[1].c)]

\* LexerInput::bump.  ok = FALSE is the unreachable!() panic: cur was taken
\* (and was None already), nothing else was assigned.
bump(c, it, lp) ==
    IF c = None
    THEN [ok |-> FALSE, cur |-> None, iter |-> it, last_pos |-> lp]
    ELSE LET n == InputNext(it)
         IN  [ok |-> TRUE, cur |-> n.item, iter |-> n.iter,
              last_pos |-> c[1].pos + len_utf8(c[1].c)]

----------------------------------------------------------------------------
(* AST nodes (the ast crate's node kinds the Jsx pass reads or builds)      *)

DUMMY_SP == 0

\* JsWord values are sequences of one-character strings.
ThisSym == <<"t", "h", "i", "s">>
ReactSym == <<"R", "e", "a", "c", "t">>
ObjectSym == <<"O", "b", "j", "e", "c", "t">>
AssignSym == <<"a", "s", "s", "i", "g", "n">>
ExtendsSym == <<"_", "e", "x", "t", "e", "n", "d", "s">>

Contains(seq, ch) == \E i \in DOMAIN seq : seq[i] = ch

Ident(sym, span) == [type |-> "Ident", sym |-> sym, span |-> span]
Str(value, span, has_escape) ==
    [type |-> "Str", value |-> value, span |-> span, has_escape |-> has_escape]
Null(span) == [type |-> "Null", span |-> span]
Bool(value, span) == [type |-> "Bool", value |-> value, span |-> span]
ThisExpr(span) == [type |-> "This", span |-> span]
ObjectLit(props, span) == [type |-> "Object", props |-> props, span |-> span]
KeyValue(key, value) == [type |-> "KeyValue", key |-> key, value |-> value]
CallExpr(callee, args, span) ==
    [type |-> "Call", callee |-> callee, args |-> args, span |-> span]
MemberExpr(obj, prop, span) ==
    [type |-> "Member", obj |-> obj, prop |-> prop, computed |-> FALSE, span |-> span]
ParenExpr(expr, span) == [type |-> "Paren", expr |-> expr, span |-> span]
JSXElement(name, attrs, children, span) ==
    [type |-> "JSXElement", name |-> name, attrs |-> attrs, children |-> children,
     span |-> span]
JSXFragment(children, span) ==
    [type |-> "JSXFragment", children |-> children, span |-> span]
JSXText(value, raw, span) ==
    [type |-> "JSXText", value |-> value, raw |-> raw, span |-> span]
JSXEmptyExpr == [type |-> "JSXEmptyExpr"]
JSXExprContainer(expr) == [type |-> "JSXExprContainer", expr |-> expr]
JSXSpreadChild(expr) == [type |-> "JSXSpreadChild", expr |-> expr]
JSXAttr(name, value) == [type |-> "JSXAttr", name |-> name, value |-> value]
SpreadElement(expr) == [type |-> "SpreadElement", expr |-> expr]
JSXNamespacedName(ns, name, span) ==
    [type |-> "JSXNamespacedName", ns |-> ns, name |-> name, span |-> span]
JSXMemberExpr(obj, prop, span) ==
    [type |-> "JSXMemberExpr", obj |-> obj, prop |-> prop, span |-> span]
PropIdent(i) == [type |-> "PropIdent", sym |-> i.sym, span |-> i.span]
PropStr(s) == [type |-> "PropStr", value |-> s.value, span |-> s.span]

\* ExprFactory::as_arg
as_arg(e) == [spread |-> None, expr |-> e]

\* ExprFactory::as_callee
as_callee(e) == [type |-> "ExprOrSuper", expr |-> e]

\* Options::default: pragma and pragma_frag as jsx() parses them
Pragma ==
    as_callee(MemberExpr(Ident(ReactSym, DUMMY_SP),
                         Ident(<<"c", "r", "e", "a", "t", "e", "E", "l", "e", "m", "e", "n", "t">>, DUMMY_SP), DUMMY_SP))

PragmaFrag ==
    as_arg(MemberExpr(Ident(ReactSym, DUMMY_SP),
                      Ident(<<"F", "r", "a", "g", "m", "e", "n", "t">>, DUMMY_SP), DUMMY_SP))

----------------------------------------------------------------------------
(* Free functions of the Jsx pass                                           *)

AsciiWhitespace == {" ", "\t", "\n", "\f", "\r"}

AsciiLowercase ==
    {"a", "b", "c", "d", "e", "f", "g", "h", "i", "j", "k", "l", "m",
     "n", "o", "p", "q", "r", "s", "t", "u", "v", "w", "x", "y", "z"}

\* str::replace("\n", " ")
ReplaceNewlines(t) == [i \in DOMAIN t |-> IF t[i] = "\n" THEN " " ELSE t[i]]

\* The loop over str::split_ascii_whitespace: every word is pushed to buf,
\* followed by one space.
RECURSIVE push_words(_, _, _, _)
push_words(t, i, word, buf) ==
    IF i > Len(t)
    THEN IF word = <<>> THEN buf ELSE buf \o word \o <<" ">>
    ELSE IF t[i] \in AsciiWhitespace
         THEN push_words(t, i + 1, <<>>,
                         IF word = <<>> THEN buf ELSE buf \o word \o <<" ">>)
         ELSE push_words(t, i + 1, Append(word, t[i]), buf)

\* jsx_text_to_str
jsx_text_to_str(t) ==
    IF ~Contains(t, " ") /\ ~Contains(t, "\n")
    THEN t
    ELSE push_words(ReplaceNewlines(t), 1, <<>>, <<>>)

\* to_prop_name
to_prop_name(n) ==
    IF n.type = "Ident"
    THEN IF Contains(n.sym, "-")
         THEN PropStr(Str(n.sym, n.span, FALSE))
         ELSE PropIdent(n)
    ELSE PropStr(Str(n.ns.sym \o <<":">> \o n.name.sym, n.span, FALSE))

\* attr_to_prop
attr_to_prop(a) ==
    LET key == to_prop_name(a.name)
        value == IF a.value = None THEN Bool(TRUE, key.span) ELSE a.value[1]
    IN  KeyValue(key, value)

\* convert_obj, the helper nested in jsx_name
RECURSIVE convert_obj(_)
convert_obj(obj) ==
    IF obj.type = "Ident"
    THEN IF obj.sym = ThisSym THEN ThisExpr(obj.span) ELSE obj
    ELSE MemberExpr(convert_obj(obj.obj), obj.prop, obj.span)

\* jsx_name
jsx_name(name) ==
    CASE name.type = "Ident" ->
            IF name.sym = ThisSym THEN ThisExpr(name.span)
            ELSE IF name.sym[1] \in AsciiLowercase
                 THEN Str(name.sym, name.span, FALSE)
                 ELSE name
      [] name.type = "JSXNamespacedName" ->
            Str(name.ns.sym \o <<":">> \o name.name.sym, name.span, FALSE)
      [] name.type = "JSXMemberExpr" ->
            MemberExpr(convert_obj(name.obj), name.prop, name.span)

----------------------------------------------------------------------------
(* impl Jsx.  Every method threads `ext`, the value of Helpers.extends,     *)
(* and reports a panic as ok = FALSE together with the flag at that point.  *)

\* The check!() macro with its first condition left out.
check_nonempty_only(args, cur_obj_props) ==
    IF cur_obj_props # <<>>
    THEN [args |-> Append(args, as_arg(ObjectLit(cur_obj_props, DUMMY_SP))),
          cur_obj_props |-> <<>>]
    ELSE [args |-> args, cur_obj_props |-> cur_obj_props]

\* The check!() macro of fold_attrs.
check(args, cur_obj_props) ==
    IF args = <<>> \/ cur_obj_props # <<>>
    THEN [args |-> Append(args, as_arg(ObjectLit(cur_obj_props, DUMMY_SP))),
          cur_obj_props |-> <<>>]
    ELSE [args |-> args, cur_obj_props |-> cur_obj_props]

\* The `for attr in attrs` loop of fold_attrs and the check!() after it.
RECURSIVE attrs_loop(_, _, _, _)
attrs_loop(as, i, args, cur_obj_props) ==
    IF i > Len(as)
    THEN check(args, cur_obj_props).args
    ELSE IF as[i].type = "JSXAttr"
         THEN attrs_loop(as, i + 1, args, Append(cur_obj_props, attr_to_prop(as[i])))
         ELSE LET c == check(args, cur_obj_props)
              IN  attrs_loop(as, i + 1, Append(c.args, as_arg(as[i].expr)),
                             c.cur_obj_props)

\* Jsx::fold_attrs
fold_attrs(as, ext) ==
    IF as = <<>>
    THEN [expr |-> Null(DUMMY_SP), ext |-> ext]
    ELSE IF \E i \in DOMAIN as : as[i].type = "SpreadElement"
         THEN [expr |->
                 CallExpr(IF use_builtins
                          THEN as_callee(MemberExpr(Ident(ObjectSym, DUMMY_SP),
                                                    Ident(AssignSym, DUMMY_SP),
                                                    DUMMY_SP))
                          ELSE as_callee(Ident(ExtendsSym, DUMMY_SP)),
                          attrs_loop(as, 1, <<>>, <<>>),
                          DUMMY_SP),
               ext |-> IF use_builtins THEN ext ELSE TRUE]
         ELSE [expr |-> ObjectLit([i \in DOMAIN as |-> attr_to_prop(as[i])], DUMMY_SP),
               ext |-> ext]

RECURSIVE jsx_elem_to_expr(_, _)
RECURSIVE jsx_frag_to_expr(_, _)
RECURSIVE jsx_elem_child_to_expr(_, _)
RECURSIVE lower_children(_, _, _, _)

\* children.into_iter().filter_map(|c| self.jsx_elem_child_to_expr(c))
lower_children(children, i, args, ext) ==
    IF i > Len(children)
    THEN [ok |-> TRUE, args |-> args, ext |-> ext]
    ELSE LET r == jsx_elem_child_to_expr(children[i], ext)
         IN  IF ~r.ok
             THEN [ok |-> FALSE, args |-> <<>>, ext |-> r.ext]
             ELSE lower_children(children, i + 1, args \o r.arg, r.ext)

\* Jsx::jsx_elem_child_to_expr: arg is the Option<ExprOrSpread> returned.
jsx_elem_child_to_expr(c, ext) ==
    CASE c.type = "JSXText" ->
            LET s == Str(jsx_text_to_str(c.value), c.span, c.raw # c.value)
            IN  [ok |-> TRUE,
                 arg |-> IF s.value = <<>> THEN None ELSE Some(as_arg(s)),
                 ext |-> ext]
      [] c.type = "JSXExprContainer" ->
            [ok |-> TRUE,
             arg |-> IF c.expr.type = "JSXEmptyExpr" THEN None ELSE Some(as_arg(c.expr)),
             ext |-> ext]
      [] c.type = "JSXElement" ->
            LET r == jsx_elem_to_expr(c, ext)
            IN  [ok |-> r.ok,
                 arg |-> IF r.ok THEN Some(as_arg(r.expr)) ELSE None,
                 ext |-> r.ext]
      [] c.type = "JSXFragment" ->
            LET r == jsx_frag_to_expr(c, ext)
            IN  [ok |-> r.ok,
                 arg |-> IF r.ok THEN Some(as_arg(r.expr)) ELSE None,
                 ext |-> r.ext]
      [] c.type = "JSXSpreadChild" ->
            [ok |-> FALSE, arg |-> None, ext |-> ext]

\* Jsx::jsx_frag_to_expr
jsx_frag_to_expr(el, ext) ==
    LET ch == lower_children(el.children, 1, <<>>, ext)
    IN  IF ch.ok
        THEN [ok |-> TRUE,
              expr |-> CallExpr(Pragma,
                                <<PragmaFrag, as_arg(Null(DUMMY_SP))>> \o ch.args,
                                el.span),
              ext |-> ch.ext]
        ELSE [ok |-> FALSE, expr |-> None, ext |-> ch.ext]

\* Jsx::jsx_elem_to_expr: the attributes are lowered when the argument
\* iterator is built, the children when it is collected.
jsx_elem_to_expr(el, ext) ==
    LET name == jsx_name(el.name)
        a == fold_attrs(el.attrs, ext)
        ch == lower_children(el.children, 1, <<>>, a.ext)
    IN  IF ch.ok
        THEN [ok |-> TRUE,
              expr |-> CallExpr(Pragma,
                                <<as_arg(name), as_arg(a.expr)>> \o ch.args,
                                el.span),
              ext |-> ch.ext]
        ELSE [ok |-> FALSE, expr |-> None, ext |-> ch.ext]

----------------------------------------------------------------------------
(* The fold contract: fold_children folds every expression below a node,    *)
(* in field order, and rebuilds the node; Fold<Expr> for Jsx runs it first. *)

RECURSIVE fold(_, _)
RECURSIVE fold_children(_, _)
RECURSIVE fold_jsx_node(_, _)
RECURSIVE fold_jsx_attrs(_, _, _, _)
RECURSIVE fold_jsx_children(_, _, _, _)
RECURSIVE fold_args(_, _, _, _)
RECURSIVE fold_props(_, _, _, _)

Failed(ext) == [ok |-> FALSE, expr |-> None, ext |-> ext]

\* Vec<JSXAttrOrSpread>: the value of an attribute, the expression of a spread
fold_jsx_attrs(as, i, acc, ext) ==
    IF i > Len(as)
    THEN [ok |-> TRUE, expr |-> acc, ext |-> ext]
    ELSE IF as[i].type = "JSXAttr"
         THEN IF as[i].value = None
              THEN fold_jsx_attrs(as, i + 1, Append(acc, as[i]), ext)
              ELSE LET r == fold(as[i].value[1], ext)
                   IN  IF ~r.ok THEN Failed(r.ext)
                       ELSE fold_jsx_attrs(as, i + 1,
                                Append(acc, JSXAttr(as[i].name, Some(r.expr))), r.ext)
         ELSE LET r == fold(as[i].expr, ext)
              IN  IF ~r.ok THEN Failed(r.ext)
                  ELSE fold_jsx_attrs(as, i + 1, Append(acc, SpreadElement(r.expr)), r.ext)

\* Vec<JSXElementChild>: nested elements and fragments are not expressions,
\* so they are traversed, and only the expressions inside them are folded.
fold_jsx_children(children, i, acc, ext) ==
    IF i > Len(children)
    THEN [ok |-> TRUE, expr |-> acc, ext |-> ext]
    ELSE LET c == children[i]
             r == CASE c.type = "JSXText" -> [ok |-> TRUE, expr |-> c, ext |-> ext]
                    [] c.type = "JSXExprContainer" ->
                          IF c.expr.type = "JSXEmptyExpr"
                          THEN [ok |-> TRUE, expr |-> c, ext |-> ext]
                          ELSE LET e == fold(c.expr, ext)
                               IN  IF ~e.ok THEN Failed(e.ext)
                                   ELSE [ok |-> TRUE, expr |-> JSXExprContainer(e.expr),
                                         ext |-> e.ext]
                    [] c.type = "JSXSpreadChild" ->
                          LET e == fold(c.expr, ext)
                          IN  IF ~e.ok THEN Failed(e.ext)
                              ELSE [ok |-> TRUE, expr |-> JSXSpreadChild(e.expr),
                                    ext |-> e.ext]
                    [] OTHER -> fold_jsx_node(c, ext)
         IN  IF ~r.ok THEN Failed(r.ext)
             ELSE fold_jsx_children(children, i + 1, Append(acc, r.expr), r.ext)

\* A JSXElement (opening.attrs, then children) or a JSXFragment (children)
fold_jsx_node(n, ext) ==
    IF n.type = "JSXElement"
    THEN LET a == fold_jsx_attrs(n.attrs, 1, <<>>, ext)
         IN  IF ~a.ok THEN Failed(a.ext)
             ELSE LET ch == fold_jsx_children(n.children, 1, <<>>, a.ext)
                  IN  IF ~ch.ok THEN Failed(ch.ext)
                      ELSE [ok |-> TRUE,
                            expr |-> JSXElement(n.name, a.expr, ch.expr, n.span),
                            ext |-> ch.ext]
    ELSE LET ch == fold_jsx_children(n.children, 1, <<>>, ext)
         IN  IF ~ch.ok THEN Failed(ch.ext)
             ELSE [ok |-> TRUE, expr |-> JSXFragment(ch.expr, n.span), ext |-> ch.ext]

\* Vec<ExprOrSpread>
fold_args(args, i, acc, ext) ==
    IF i > Len(args)
    THEN [ok |-> TRUE, expr |-> acc, ext |-> ext]
    ELSE LET r == fold(args[i].expr, ext)
         IN  IF ~r.ok THEN Failed(r.ext)
             ELSE fold_args(args, i + 1, Append(acc, as_arg(r.expr)), r.ext)

\* Vec<PropOrSpread>: the value of every key-value property
fold_props(props, i, acc, ext) ==
    IF i > Len(props)
    THEN [ok |-> TRUE, expr |-> acc, ext |-> ext]
    ELSE LET r == fold(props[i].value, ext)
         IN  IF ~r.ok THEN Failed(r.ext)
             ELSE fold_props(props, i + 1, Append(acc, KeyValue(props[i].key, r.expr)),
                             r.ext)

\* FoldWith::fold_children of an Expr
fold_children(e, ext) ==
    CASE e.type = "Paren" ->
            LET r == fold(e.expr, ext)
            IN  IF ~r.ok THEN Failed(r.ext)
                ELSE [ok |-> TRUE, expr |-> ParenExpr(r.expr, e.span), ext |-> r.ext]
      [] e.type \in {"JSXElement", "JSXFragment"} -> fold_jsx_node(e, ext)
      [] e.type = "Call" ->
            LET c == fold(e.callee.expr, ext)
            IN  IF ~c.ok THEN Failed(c.ext)
                ELSE LET a == fold_args(e.args, 1, <<>>, c.ext)
                     IN  IF ~a.ok THEN Failed(a.ext)
                         ELSE [ok |-> TRUE,
                               expr |-> CallExpr(as_callee(c.expr), a.expr, e.span),
                               ext |-> a.ext]
      [] e.type = "Member" ->
            LET o == fold(e.obj, ext)
            IN  IF ~o.ok THEN Failed(o.ext)
                ELSE LET q == fold(e.prop, o.ext)
                     IN  IF ~q.ok THEN Failed(q.ext)
                         ELSE [ok |-> TRUE, expr |-> MemberExpr(o.expr, q.expr, e.span),
                               ext |-> q.ext]
      [] e.type = "Object" ->
            LET q == fold_props(e.props, 1, <<>>, ext)
            IN  IF ~q.ok THEN Failed(q.ext)
                ELSE [ok |-> TRUE, expr |-> ObjectLit(q.expr, e.span), ext |-> q.ext]
      [] OTHER -> [ok |-> TRUE, expr |-> e, ext |-> ext]

\* impl Fold<Expr> for Jsx
fold(e, ext) ==
    LET r == fold_children(e, ext)
    IN  IF ~r.ok THEN r
        ELSE IF r.expr.type = "Paren" /\ r.expr.expr.type = "JSXElement"
             THEN jsx_elem_to_expr(r.expr.expr, r.ext)
             ELSE IF r.expr.type = "JSXElement"
                  THEN jsx_elem_to_expr(r.expr, r.ext)
                  ELSE r

----------------------------------------------------------------------------
(* Bounds and input sets of the Jsx model.  Trees are drawn as shapes and   *)
(* then given spans by position, so that every node of an input has a span  *)
(* of its own, as the parser's output has.                                  *)

MaxChildren == 2
MaxNested == 1
MaxAttrs == 3
MaxText == 4

SeqsUpTo(S, n) == UNION {[1..k -> S] : k \in 0..n}

ChildSpan(sp, i) == 10 * sp + i
AttrSpan(sp, j) == 10 * sp + 5 + j

\* An identifier-like leaf at span sp
Id(ch, sp) == Ident(<<ch>>, sp)

\* The kinds of attribute: a="1", b, data-x, x:y="1", {...p}, {...{}}
AttrShapes ==
    {JSXAttr(Id("a", 0), Some(Str(<<"1">>, 0, FALSE))),
     JSXAttr(Id("b", 0), None),
     JSXAttr(Ident(<<"d", "-", "x">>, 0), None),
     JSXAttr(JSXNamespacedName(Id("x", 0), Id("y", 0), 0), Some(Str(<<"1">>, 0, FALSE))),
     SpreadElement(Id("p", 0)),
     SpreadElement(ObjectLit(<<>>, 0))}

\* The children without JSX children of their own: x, a blank text, {c},
\* {}, {...s}, {<b/>}
LeafShapes ==
    {JSXText(<<"x">>, <<"x">>, 0),
     JSXText(<<" ">>, <<" ">>, 0),
     JSXExprContainer(Id("c", 0)),
     JSXExprContainer(JSXEmptyExpr),
     JSXSpreadChild(Id("s", 0)),
     JSXExprContainer(JSXElement(Id("b", 0), <<>>, <<>>, 0))}

NestedShapes ==
    {JSXElement(Id("i", 0), a, ch, 0) :
        a \in {<<>>, <<SpreadElement(Id("q", 0))>>},
        ch \in SeqsUpTo(LeafShapes, MaxNested)}
    \cup {JSXFragment(ch, 0) : ch \in SeqsUpTo(LeafShapes, MaxNested)}

TopChildShapes == SeqsUpTo(LeafShapes \cup NestedShapes, MaxChildren)

TopAttrShapes ==
    {<<>>,
     <<JSXAttr(Id("a", 0), Some(Str(<<"1">>, 0, FALSE)))>>,
     <<SpreadElement(Id("p", 0))>>,
     <<SpreadElement(Id("p", 0)), JSXAttr(Id("a", 0), Some(Str(<<"1">>, 0, FALSE)))>>}

TopNameShapes == {Ident(<<"d", "i", "v">>, 0), Ident(<<"F", "o", "o">>, 0)}

\* Element names and attribute values outside the product above
ExtraShapes ==
    {JSXElement(n, <<>>, <<>>, 0) :
        n \in {Ident(ThisSym, 0),
               JSXNamespacedName(Id("x", 0), Id("y", 0), 0),
               JSXMemberExpr(Ident(ThisSym, 0), Id("m", 0), 0),
               JSXMemberExpr(JSXMemberExpr(Id("A", 0), Id("m", 0), 0), Id("n", 0), 0)}}
    \cup {JSXElement(Ident(<<"d", "i", "v">>, 0),
                     <<JSXAttr(Id("a", 0),
                               Some(JSXElement(Id("b", 0), <<>>, <<>>, 0)))>>,
                     <<>>, 0),
          Id("v", 0),
          ObjectLit(<<KeyValue(PropIdent(Id("k", 0)),
                               JSXElement(Id("b", 0), <<>>, <<>>, 0))>>, 0)}

JsxShapes ==
    {JSXElement(n, a, ch, 0) :
        n \in TopNameShapes, a \in TopAttrShapes, ch \in TopChildShapes}
    \cup {JSXFragment(ch, 0) : ch \in TopChildShapes}
    \cup ExtraShapes

\* The shape n with its spans set: sp for n itself, and a span derived from
\* sp and the position for each attribute and each child.
RECURSIVE Respan(_, _)
Respan(n, sp) ==
    CASE n.type = "JSXElement" ->
            JSXElement(Respan(n.name, sp),
                       [j \in DOMAIN n.attrs |-> Respan(n.attrs[j], AttrSpan(sp, j))],
                       [i \in DOMAIN n.children |-> Respan(n.children[i], ChildSpan(sp, i))],
                       sp)
      [] n.type = "JSXFragment" ->
            JSXFragment([i \in DOMAIN n.children |-> Respan(n.children[i], ChildSpan(sp, i))],
                        sp)
      [] n.type = "JSXAttr" ->
            JSXAttr(Respan(n.name, sp),
                    IF n.value = None THEN None ELSE Some(Respan(n.value[1], sp)))
      [] n.type = "SpreadElement" -> SpreadElement(Respan(n.expr, sp))
      [] n.type = "JSXSpreadChild" -> JSXSpreadChild(Respan(n.expr, sp))
      [] n.type = "JSXExprContainer" -> JSXExprContainer(Respan(n.expr, sp))
      [] n.type = "JSXEmptyExpr" -> n
      [] n.type = "JSXNamespacedName" ->
            JSXNamespacedName(Respan(n.ns, sp), Respan(n.name, sp), sp)
      [] n.type = "JSXMemberExpr" ->
            JSXMemberExpr(Respan(n.obj, sp), Respan(n.prop, sp), sp)
      [] n.type = "Object" ->
            ObjectLit([i \in DOMAIN n.props |->
                          KeyValue(n.props[i].key, Respan(n.props[i].value, sp))], sp)
      [] OTHER -> [n EXCEPT !.span = sp]

\* What Fold<Expr>::fold is handed: an expression, or a parenthesized one
InputExprs ==
    {Respan(e, 1) : e \in JsxShapes}
    \cup {ParenExpr(Respan(e, 11), 1) : e \in JsxShapes}

\* What fold_attrs is handed: the attributes of an opening element at span 1
AttrLists ==
    {[j \in DOMAIN as |-> Respan(as[j], AttrSpan(1, j))] :
        as \in SeqsUpTo(AttrShapes, MaxAttrs)}

TextChars == {"a", "b", " ", "\n", "\t"}

\* JSXText children; raw is the text as written, value the text as parsed
Texts == {JSXText(v, v, 1) : v \in SeqsUpTo(TextChars, MaxText)}

----------------------------------------------------------------------------
(* The three state machines                                                 *)

jsxVars == <<use_builtins, extends, root, jpc, out, first>>
attrVars == <<attr_list, aout>>
textVars == <<jsx_text, tout>>
vars == <<lexVars, jsxVars, attrVars, textVars>>

\* LexerInput::new over FileMapInput::from(fm)
LexInit ==
    /\ src \in Sources
    /\ start_pos \in StartPositions
    /\ iter = 0
    /\ cur = None
    /\ last_pos = 0
    /\ panicked = FALSE
    /\ bumps = 0
    /\ reads = 0
    /\ obsC = None
    /\ obsP = None
    /\ ahead = None
    \* the Jsx pass is not exercised
    /\ root = Null(DUMMY_SP) /\ jpc = "idle" /\ out = None /\ first = None
    /\ use_builtins = FALSE /\ extends = FALSE
    /\ attr_list = <<>> /\ aout = None
    /\ jsx_text = JSXText(<<>>, <<>>, DUMMY_SP) /\ tout = None

Bump ==
    /\ ~panicked
    /\ LET r == bump(cur, iter, last_pos)
       IN  /\ cur' = r.cur
           /\ iter' = r.iter
           /\ last_pos' = r.last_pos
           /\ panicked' = ~r.ok
           /\ bumps' = IF r.ok THEN bumps + 1 ELSE bumps
           /\ reads' = IF r.ok THEN 0 ELSE reads
           /\ obsC' = IF r.ok THEN None ELSE obsC
           /\ obsP' = IF r.ok THEN None ELSE obsP
    /\ UNCHANGED <<src, start_pos, ahead>>
    /\ UNCHANGED <<jsxVars, attrVars, textVars>>

Current ==
    /\ ~panicked
    /\ reads < MaxReads
    /\ LET r == current(cur, iter)
       IN  /\ cur' = r.cur
           /\ iter' = r.iter
           /\ obsC' = Some(r.ret)
    /\ reads' = reads + 1
    /\ UNCHANGED <<src, start_pos, last_pos, panicked, bumps, obsP, ahead>>
    /\ UNCHANGED <<jsxVars, attrVars, textVars>>

CurPos ==
    /\ ~panicked
    /\ reads < MaxReads
    /\ LET r == cur_pos(cur, iter, last_pos)
       IN  /\ cur' = r.cur
           /\ iter' = r.iter
           /\ obsP' = Some(r.ret)
    /\ reads' = reads + 1
    /\ UNCHANGED <<src, start_pos, last_pos, panicked, bumps, obsC, ahead>>
    /\ UNCHANGED <<jsxVars, attrVars, textVars>>

PeekAhead ==
    /\ ~panicked
    /\ ahead' = Some([n |-> bumps, c |-> peek_ahead(iter)])
    /\ UNCHANGED <<src, start_pos, iter, cur, last_pos, panicked, bumps, reads,
                   obsC, obsP>>
    /\ UNCHANGED <<jsxVars, attrVars, textVars>>

LexNext == Bump \/ Current \/ CurPos \/ PeekAhead

SpecLexer == LexInit /\ [][LexNext]_vars

\* jsx(cm, options, helpers), and the expression the pass is about to fold
JsxInit ==
    /\ use_builtins \in BOOLEAN
    /\ extends \in BOOLEAN
    /\ root \in InputExprs
    /\ jpc = "start"
    /\ out = None
    /\ first = None
    \* the lexer, fold_attrs alone and the text child are not exercised
    /\ src = <<>> /\ start_pos = 0 /\ iter = 0 /\ cur = None /\ last_pos = 0
    /\ panicked = FALSE /\ bumps = 0 /\ reads = 0
    /\ obsC = None /\ obsP = None /\ ahead = None
    /\ attr_list = <<>> /\ aout = None
    /\ jsx_text = JSXText(<<>>, <<>>, DUMMY_SP) /\ tout = None

\* Fold<Expr>::fold on the input
FoldExpr ==
    /\ jpc = "start"
    /\ LET r == fold(root, extends)
       IN  /\ jpc' = IF r.ok THEN "folded" ELSE "aborted"
           /\ out' = IF r.ok THEN Some(r.expr) ELSE None
           /\ first' = IF r.ok THEN Some(r.expr) ELSE None
           /\ extends' = r.ext
    /\ UNCHANGED <<use_builtins, root>>
    /\ UNCHANGED <<lexVars, attrVars, textVars>>

\* Fold<Expr>::fold on what the first fold returned
Refold ==
    /\ jpc = "folded"
    /\ LET r == fold(out[1], extends)
       IN  /\ jpc' = IF r.ok THEN "refolded" ELSE "aborted"
           /\ out' = IF r.ok THEN Some(r.expr) ELSE None
           /\ extends' = r.ext
    /\ UNCHANGED <<use_builtins, root, first>>
    /\ UNCHANGED <<lexVars, attrVars, textVars>>

JsxNext == FoldExpr \/ Refold

SpecJsx == JsxInit /\ [][JsxNext]_vars

AttrInit ==
    /\ use_builtins \in BOOLEAN
    /\ extends \in BOOLEAN
    /\ attr_list \in AttrLists
    /\ aout = None
    \* the rest is not exercised
    /\ src = <<>> /\ start_pos = 0 /\ iter = 0 /\ cur = None /\ last_pos = 0
    /\ panicked = FALSE /\ bumps = 0 /\ reads = 0
    /\ obsC = None /\ obsP = None /\ ahead = None
    /\ root = Null(DUMMY_SP) /\ jpc = "idle" /\ out = None /\ first = None
    /\ jsx_text = JSXText(<<>>, <<>>, DUMMY_SP) /\ tout = None

\* Jsx::fold_attrs on the attribute list
FoldAttrs ==
    /\ aout = None
    /\ LET r == fold_attrs(attr_list, extends)
       IN  /\ aout' = Some(r.expr)
           /\ extends' = r.ext
    /\ UNCHANGED <<use_builtins, attr_list>>
    /\ UNCHANGED <<lexVars, root, jpc, out, first, textVars>>

AttrNext == FoldAttrs

SpecAttrs == AttrInit /\ [][AttrNext]_vars

TextInit ==
    /\ jsx_text \in Texts
    /\ tout = None
    \* the rest is not exercised
    /\ src = <<>> /\ start_pos = 0 /\ iter = 0 /\ cur = None /\ last_pos = 0
    /\ panicked = FALSE /\ bumps = 0 /\ reads = 0
    /\ obsC = None /\ obsP = None /\ ahead = None
    /\ root = Null(DUMMY_SP) /\ jpc = "idle" /\ out = None /\ first = None
    /\ use_builtins = FALSE /\ extends = FALSE
    /\ attr_list = <<>> /\ aout = None

\* Jsx::jsx_elem_child_to_expr on the JSXText child
LowerText ==
    /\ tout = None
    /\ tout' = Some(jsx_elem_child_to_expr(jsx_text, extends).arg)
    /\ UNCHANGED jsx_text
    /\ UNCHANGED <<lexVars, jsxVars, attrVars>>

TextNext == LowerText

SpecText == TextInit /\ [][TextNext]_vars

----------------------------------------------------------------------------
(* Properties of the character stream                                       *)

\* Every codepoint of the source has been consumed by bump().
AtEnd == bumps = Len(src)

\* C1: for a source with at least N+2 codepoints, what peek_ahead() returned
\* after N bumps equals what current() returns after N+2 bumps, in every state
\* in which peek_ahead() was called (a freshly constructed stream included).
C1_PeekAheadIsCurrentPlusTwo ==
    (/\ ahead # None
     /\ obsC # None
     /\ bumps = ahead[1].n + 2
     /\ Len(src) >= ahead[1].n + 2)
        => obsC[1] = ahead[1].c

\* C2: every bump() with a buffered pair (p, c) sets last_pos to p + width(c);
\* the new last_pos exceeds the previous last_pos by exactly width(c), and
\* equals the position of the next buffered codepoint when there is one.
C2_BumpAdvancesByWidth ==
    [][bumps' = bumps + 1 =>
          /\ cur # None
          /\ last_pos' = cur[1].pos + len_utf8(cur[1].c)
          /\ last_pos' > last_pos
          /\ last_pos' - last_pos = len_utf8(cur[1].c)
          /\ (cur' # None => cur'[1].pos = last_pos')]_vars

\* C3: with no bump() in between, every current() returns the codepoint the
\* previous current() returned and every cur_pos() the position the previous
\* cur_pos() returned; at the end of input current() returns no codepoint.
C3_CurrentIsIdempotent ==
    /\ [][/\ (obsC # None /\ obsC' # None => obsC' = obsC)
          /\ (obsP # None /\ obsP' # None => obsP' = obsP)]_vars
    /\ [](AtEnd /\ obsC # None => obsC = Some(None))

\* C3 witness: three reads after a bump, of both kinds, with a codepoint buffered.
C3_Witness ==
    /\ reads = MaxReads /\ obsC # None /\ obsP # None
    /\ bumps >= 1 /\ cur # None /\ ~panicked

\* C4: a bump() call panics exactly when no codepoint is buffered, which is
\* the case on a fresh stream nothing has read from and after the last
\* codepoint was consumed (whether or not current() was called since); the
\* panic leaves last_pos as it was; bump() never panics with one buffered.
C4_BumpFailsOnlyUnbuffered ==
    [][(bumps' # bumps \/ panicked' # panicked) =>
          LET fresh == bumps = 0 /\ reads = 0
          IN  /\ panicked' <=> (fresh \/ AtEnd)
              /\ panicked' <=> cur = None
              /\ panicked' => (last_pos' = last_pos /\ bumps' = bumps)]_vars

\* C4 witness: the bump after the last codepoint of a non-empty source was
\* consumed has panicked, current() having been called first.
C4_Witness ==
    panicked /\ AtEnd /\ Len(src) > 0 /\ obsC = Some(None)

----------------------------------------------------------------------------
(* Properties of the Jsx pass                                               *)

JsxTypes ==
    {"JSXElement", "JSXFragment", "JSXText", "JSXExprContainer", "JSXEmptyExpr",
     "JSXSpreadChild", "JSXAttr", "JSXNamespacedName", "JSXMemberExpr"}

\* No JSX node kind anywhere in the expression e.
RECURSIVE NoJsx(_)
NoJsx(e) ==
    CASE e.type \in JsxTypes -> FALSE
      [] e.type = "Paren" -> NoJsx(e.expr)
      [] e.type = "Call" ->
            NoJsx(e.callee.expr) /\ \A i \in DOMAIN e.args : NoJsx(e.args[i].expr)
      [] e.type = "Member" -> NoJsx(e.obj) /\ NoJsx(e.prop)
      [] e.type = "Object" -> \A i \in DOMAIN e.props : NoJsx(e.props[i].value)
      [] OTHER -> TRUE

\* A child contributes an argument unless it is a text that normalises to the
\* empty string or a container holding the empty expression.
Contributes(c) ==
    CASE c.type = "JSXText" -> jsx_text_to_str(c.value) # <<>>
      [] c.type = "JSXExprContainer" -> c.expr.type # "JSXEmptyExpr"
      [] OTHER -> TRUE

Contributing(children) == SelectSeq(children, Contributes)

\* The span of the argument child c contributes.
ArgSpan(c) == IF c.type = "JSXExprContainer" THEN c.expr.span ELSE c.span

\* The arguments after the first two are those of the contributing children,
\* one each, in source order.
ChildArgs(children, args) ==
    LET cs == Contributing(children)
    IN  /\ Len(args) = 2 + Len(cs)
        /\ \A i \in DOMAIN cs :
              /\ args[2 + i].spread = None
              /\ args[2 + i].expr.span = ArgSpan(cs[i])
              /\ args[2 + i].expr.type =
                    CASE cs[i].type = "JSXText" -> "Str"
                      [] cs[i].type \in {"JSXElement", "JSXFragment"} -> "Call"
                      [] cs[i].expr.type = "JSXElement" -> "Call"
                      [] OTHER -> cs[i].expr.type

\* The lowered attributes: null, one object literal, or a merge call.
AttrsArg(as, a) ==
    /\ a.spread = None
    /\ a.expr.type =
          IF as = <<>> THEN "Null"
          ELSE IF \E j \in DOMAIN as : as[j].type = "SpreadElement" THEN "Call"
               ELSE "Object"

\* o is the call the element el lowers to.
ElemLowered(el, o) ==
    /\ o.type = "Call"
    /\ o.callee = Pragma
    /\ o.span = el.span
    /\ Len(o.args) >= 2
    /\ o.args[1] = as_arg(jsx_name(el.name))
    /\ AttrsArg(el.attrs, o.args[2])
    /\ ChildArgs(el.children, o.args)

\* o is the call the fragment fr lowers to.
FragLowered(fr, o) ==
    /\ o.type = "Call"
    /\ o.callee = Pragma
    /\ o.span = fr.span
    /\ Len(o.args) >= 2
    /\ o.args[1] = PragmaFrag
    /\ o.args[2] = as_arg(Null(DUMMY_SP))
    /\ ChildArgs(fr.children, o.args)

\* C5: folding a JSX element, or a parenthesized JSX element, yields the call
\* itself (not a parenthesized call): callee the pragma, span the element's
\* span, arguments the name, the lowered attributes and one argument per
\* contributing child in source order.
C5_ElementBecomesCall ==
    (/\ jpc = "folded"
     /\ \/ root.type = "JSXElement"
        \/ root.type = "Paren" /\ root.expr.type = "JSXElement")
        => ElemLowered(IF root.type = "Paren" THEN root.expr ELSE root, out[1])

\* C6: folding a JSX fragment, be it the folded expression itself or a child
\* of a JSX element, yields a pragma call over the fragment pragma, null and
\* one argument per contributing child; an empty expression contributes none.
C6_FragmentBecomesCall ==
    jpc = "folded" =>
        /\ root.type = "JSXFragment" => FragLowered(root, out[1])
        /\ root.type = "JSXElement" =>
              LET cs == Contributing(root.children)
              IN  \A i \in DOMAIN cs :
                     cs[i].type = "JSXFragment" =>
                        FragLowered(cs[i], out[1].args[2 + i].expr)

\* C8: when the pass completes, its output holds no JSX node kind, and
\* running the pass on that output returns it unchanged.
C8_OutputHasNoJsx ==
    /\ jpc \in {"folded", "refolded"} => NoJsx(first[1])
    /\ jpc = "refolded" => out = first

\* C9: a lowering that reaches a spread child aborts without a rewritten node
\* and with the helper registry's flag as it was before the lowering began.
C9_AbortLeavesNoEffect ==
    [][jpc' = "aborted" => (out' = None /\ extends' = extends)]_vars

----------------------------------------------------------------------------
(* Properties of fold_attrs                                                 *)

IsSpread(as, j) == as[j].type = "SpreadElement"

HasSpread(as) == \E j \in DOMAIN as : IsSpread(as, j)

\* Position j starts a maximal run of plain attributes.
IsRunStart(as, j) == ~IsSpread(as, j) /\ (j = 1 \/ IsSpread(as, j - 1))

\* The last position of the run of plain attributes that starts at j.
RunEnd(as, j) ==
    CHOOSE k \in j..Len(as) :
        /\ \A m \in j..k : ~IsSpread(as, m)
        /\ (k = Len(as) \/ IsSpread(as, k + 1))

\* The merge arguments, stated by position: every spread and every maximal
\* run of plain attributes gives one argument, in attribute order, after an
\* empty object literal when the list starts with a spread.
ExpectedArgs(as) ==
    LET items == {j \in DOMAIN as : IsSpread(as, j) \/ IsRunStart(as, j)}
        nth(k) == CHOOSE j \in items : Cardinality({m \in items : m < j}) = k - 1
        arg(j) == IF IsSpread(as, j)
                  THEN as_arg(as[j].expr)
                  ELSE as_arg(ObjectLit([m \in 1..(RunEnd(as, j) - j + 1) |->
                                            attr_to_prop(as[j + m - 1])], DUMMY_SP))
    IN  (IF IsSpread(as, 1) THEN <<as_arg(ObjectLit(<<>>, DUMMY_SP))>> ELSE <<>>)
        \o [k \in 1..Cardinality(items) |-> arg(nth(k))]

EmptyObject(e) == e.type = "Object" /\ e.props = <<>>

\* What C7 states apart from its remark on empty object literals.
MergeCall(as, o, ext, ext2) ==
    /\ o.type = "Call"
    /\ o.args = ExpectedArgs(as)
    /\ o.args[1].expr.type = "Object"
    /\ EmptyObject(o.args[1].expr) <=> IsSpread(as, 1)
    /\ use_builtins =>
          /\ o.callee = as_callee(MemberExpr(Ident(ObjectSym, DUMMY_SP),
                                             Ident(AssignSym, DUMMY_SP), DUMMY_SP))
          /\ ext2 = ext
    /\ ~use_builtins =>
          /\ o.callee = as_callee(Ident(ExtendsSym, DUMMY_SP))
          /\ ext2 = TRUE

\* C7 as stated: for a list with a spread, fold_attrs returns the merge call
\* described, and no argument but the first is an empty object literal.
C7_NoOtherEmptyObject ==
    [][(aout' # None /\ HasSpread(attr_list)) =>
          /\ MergeCall(attr_list, aout'[1], extends, extends')
          /\ \A i \in 2..Len(aout'[1].args) : ~EmptyObject(aout'[1].args[i].expr)]_vars

\* C7 amended: for a list with a spread, fold_attrs returns the merge call
\* described, and no argument but the first is an empty object literal that
\* fold_attrs built: an empty object literal among the later arguments is the
\* expression of a spread, passed on as written.
C7_MergeCall ==
    [][(aout' # None /\ HasSpread(attr_list)) =>
          /\ MergeCall(attr_list, aout'[1], extends, extends')
          /\ \A i \in 2..Len(aout'[1].args) :
                EmptyObject(aout'[1].args[i].expr) =>
                    \E j \in DOMAIN attr_list :
                        /\ IsSpread(attr_list, j)
                        /\ attr_list[j].expr = aout'[1].args[i].expr
                        /\ aout'[1].args[i].expr.span # DUMMY_SP]_vars

\* C7 witness: {...x} a {...y} lowered with the helper: three attributes, a
\* leading spread, a run, a spread of an empty object literal.
C7_Witness ==
    /\ aout # None
    /\ Len(attr_list) = 3
    /\ IsSpread(attr_list, 1)
    /\ ~IsSpread(attr_list, 2)
    /\ IsSpread(attr_list, 3) /\ EmptyObject(attr_list[3].expr)
    /\ ~use_builtins
    /\ extends
    /\ Len(aout[1].args) = 4

----------------------------------------------------------------------------
(* Properties of the lowering of a text child                               *)

\* t with every run of spaces and newlines replaced by one space.
RECURSIVE Collapse(_, _)
Collapse(t, i) ==
    IF i > Len(t) THEN <<>>
    ELSE IF t[i] \in {" ", "\n"}
         THEN IF i > 1 /\ t[i - 1] \in {" ", "\n"}
              THEN Collapse(t, i + 1)
              ELSE <<" ">> \o Collapse(t, i + 1)
         ELSE <<t[i]>> \o Collapse(t, i + 1)

\* C10: the string a text child contributes is the text with each run of
\* spaces and newlines collapsed to one space, nothing added or removed; the
\* child contributes no argument exactly when that string is empty.
C10_TextIsCollapsed ==
    tout # None =>
        LET n == Collapse(jsx_text.value, 1)
        IN  /\ tout[1] = None <=> n = <<>>
            /\ tout[1] # None =>
                  /\ tout[1][1].expr.type = "Str"
                  /\ tout[1][1].expr.value = n

=============================================================================
